---- MODULE Spec2Model ----
(***************************************************************************)
(* Model of the multi-provider AI orchestration and key-management         *)
(* subsystem of lumnicode's backend:                                       *)
(*                                                                         *)
(*   - the progress channel / session registry  (api/websocket.py)         *)
(*   - the generation session orchestrator      (ai_generation_service.py) *)
(*   - the REST generation surface              (api/ai_generation.py)     *)
(*   - the key store and manager                (api_key_manager.py)       *)
(*   - the multi-provider AI service            (multi_provider_ai_ser...) *)
(*                                                                         *)
(* Scheduling is asyncio's: the code between two suspension points of a    *)
(* coroutine runs atomically, so every action below is one such block.     *)
(*                                                                         *)
(* Collaborators that the sources only use through an interface are the    *)
(* environment: the outcome of a provider HTTP call, of a validation       *)
(* probe, of a websocket send and of the project lookup are inputs drawn   *)
(* with \E.  The composition root of the subsystem is not part of the      *)
(* sources (main.py mounts none of its routers), so the services are       *)
(* modelled with their collaborators injected (api_key_manager set, HTTP   *)
(* session open) and the key records carry the columns api_key_manager.py  *)
(* reads and writes.                                                       *)
(*                                                                         *)
(* The specifications share the variables:                                 *)
(*   Spec    the generation sessions and the progress channel              *)
(*   SpecAI  the key store and the tasks of the AI service                 *)
(*   SpecProgress  the progress arithmetic of the file loop                *)
(***************************************************************************)
EXTENDS Integers, Sequences, FiniteSets, TLC

VARIABLES
    ai_sessions,         \* manager.ai_sessions: session id -> session data
    active_connections,  \* manager.active_connections (ids with a websocket)
    active_generations,  \* AIGenerationService.active_generations (task table)
    task,                \* the background task of each session
    published,           \* events handed to the progress channel, per session
    hist,                \* history of the external requests of each session
    keys,                \* the user_api_keys table: key id -> row
    calls,               \* the task calls of the AI service in progress
    next_key_id,         \* next primary key of user_api_keys
    loop,                \* the file loop of step 3 applied to a manifest
    reply,               \* what the last key-manager or validator call returned
    va,                  \* the validate_all_keys calls in progress
    handlers,            \* the assist requests in progress, each with its db session
    api_key_manager,     \* multi_provider_ai_service.api_key_manager (whose manager)
    usage_log            \* the update_key_usage calls made, per key

genVars == <<ai_sessions, active_connections, active_generations, task,
             published, hist>>
aiVars  == <<keys, calls, next_key_id>>
\* what the actions of the generation sessions leave alone
kmVars  == <<reply, va>>
usageVars == <<handlers, api_key_manager, usage_log>>
restVars == <<keys, calls, next_key_id, loop, kmVars, usageVars>>
vars    == <<ai_sessions, active_connections, active_generations, task,
             published, hist, keys, calls, next_key_id, loop, reply, va,
             handlers, api_key_manager, usage_log>>

-----------------------------------------------------------------------------
(* Identifiers.                                                            *)

SessionIds == {"s1"}
SessionUsers == {"u1", "u2"}

Statuses == {"running", "paused", "stopped", "completed", "error"}
Terminal == {"completed", "stopped", "error"}

NoProgress == -1

\* Largest file manifest the plan step returns.
MaxFiles == 2

\* context: {} (NoContext) or {"structure": ...}, kept as the number of
\* entries of the parsed manifest.
NoContext == -1

-----------------------------------------------------------------------------
(* The progress channel (api/websocket.py).                                *)

\* dict.update(kwargs): the fields of patch replace those of old.
Merge(old, patch) ==
    [f \in DOMAIN old |-> IF f \in DOMAIN patch THEN patch[f] ELSE old[f]]

create_ai_session(sessions, s, user_id) ==
    [x \in DOMAIN sessions \cup {s} |->
        IF x = s
        THEN [user_id |-> user_id, status |-> "running", progress |-> 0,
              context |-> NoContext]
        ELSE sessions[x]]

get_ai_session(sessions, s) ==
    IF s \in DOMAIN sessions THEN sessions[s] ELSE "None"

update_ai_session(sessions, s, patch) ==
    IF s \in DOMAIN sessions
    THEN [sessions EXCEPT ![s] = Merge(sessions[s], patch)]
    ELSE sessions

\* ConnectionManager.disconnect
disconnect(conns, s) == conns \ {s}

\* A mutant of send_personal_message: a failed send leaves the subscriber
\* attached.
send_personal_message_keeps(conns, s, ok) == conns

\* ConnectionManager.send_personal_message: the connections left after the
\* send; a failing send_text detaches the subscriber, nothing is raised.
send_personal_message(conns, s, ok) ==
    IF s \in conns
    THEN (IF ok THEN conns ELSE disconnect(conns, s))
    ELSE conns

\* send_progress_update: forwards to send_personal_message when attached.
send_progress_update(conns, s, ok) ==
    IF s \in conns THEN send_personal_message(conns, s, ok) ELSE conns

Publish(pub, s, type, progress) ==
    [pub EXCEPT ![s] = @ \cup {<<type, progress>>}]

PublishedTypes(s) == {e[1] : e \in published[s]}

\* Whether send_progress_update puts the event on a socket: the session has
\* a connection registered and its send_text does not raise.
delivered(conns, s, ok) == s \in conns /\ ok

-----------------------------------------------------------------------------
(* The generation session orchestrator (ai_generation_service.py).         *)
(*                                                                         *)
(* task[s].pc: "none" (no task), "scheduled" (created, not yet run),       *)
(* "plan_call" (suspended in the plan step's generate_text), "file_check"  *)
(* (suspended before the top of a file iteration or before step 4),        *)
(* "file_call" (suspended in a file's generate_text), "done".              *)
(* task[s].cancel is Task.cancel() having been requested: CancelledError   *)
(* is thrown into the coroutine at its suspension point; it is not an      *)
(* Exception, so only the finally clause runs.                             *)
(* task[s].exit says how the coroutine ended.                              *)

\* What the plan step's generate_text call can give back.
PlanOutcomes == {"raise", "empty", "malformed", "not_object", "valid"}

IdleTask == [pc |-> "none", cancel |-> FALSE, project |-> FALSE,
             exit |-> "none"]

\* A mutant of finally_cleanup: a task body without the finally clause.
finally_cleanup_absent(gens, s) == gens

\* finally: if session_id in self.active_generations: del ...
finally_cleanup(gens, s) == gens \ {s}

\* AIGenerationService.start_generation: create the session, create and
\* register the task, publish the first progress event.
StartGeneration(s, user_id, project_exists, ok) ==
    /\ s \notin DOMAIN ai_sessions
    /\ ai_sessions' = create_ai_session(ai_sessions, s, user_id)
    /\ task' = [task EXCEPT ![s] = [pc |-> "scheduled", cancel |-> FALSE,
                                    project |-> project_exists,
                                    exit |-> "none"]]
    /\ active_generations' = active_generations \cup {s}
    /\ published' = Publish(published, s, "progress", 0)
    /\ active_connections' = send_progress_update(active_connections, s, ok)
    /\ UNCHANGED <<hist, restVars>>

\* The task is cancelled at its suspension point (or before its first step,
\* and then its body, the finally clause included, never runs).
TaskCancelled(s) ==
    /\ task[s].pc \in {"scheduled", "plan_call", "file_check", "file_call"}
    /\ task[s].cancel
    /\ task' = [task EXCEPT ![s].pc = "done", ![s].exit = "cancelled"]
    /\ active_generations' =
           IF task[s].pc = "scheduled" THEN active_generations
           ELSE finally_cleanup(active_generations, s)
    /\ UNCHANGED <<ai_sessions, active_connections, published, hist, restVars>>

\* _generate_project, lines 61-66: the project is not found.
TaskProjectNotFound(s, ok) ==
    /\ task[s].pc = "scheduled"
    /\ ~task[s].cancel
    /\ ~task[s].project
    /\ published' = Publish(published, s, "error", 0)
    /\ active_connections' = send_progress_update(active_connections, s, ok)
    /\ task' = [task EXCEPT ![s].pc = "done", ![s].exit = "not_found"]
    /\ active_generations' = finally_cleanup(active_generations, s)
    /\ UNCHANGED <<ai_sessions, hist, restVars>>

\* _generate_project, lines 68-104: the first registry write, the progress
\* event and the start of the plan step's provider call.
TaskBeginPlan(s, ok) ==
    /\ task[s].pc = "scheduled"
    /\ ~task[s].cancel
    /\ task[s].project
    /\ ai_sessions' = update_ai_session(ai_sessions, s,
                          [status |-> "running", progress |-> 10])
    /\ published' = Publish(published, s, "progress", 10)
    /\ active_connections' = send_progress_update(active_connections, s, ok)
    /\ task' = [task EXCEPT ![s].pc = "plan_call"]
    /\ UNCHANGED <<active_generations, hist, restVars>>

\* except Exception (lines 209-212): publish the error, then write it.
except_handler(sessions, s) == update_ai_session(sessions, s, [status |-> "error"])

\* _generate_project, lines 100-117 and 209-217: generate_text raised (no
\* credentials, every provider failed), or json.loads gave something that
\* is no object (the .get raises AttributeError).
TaskPlanRaised(s, outcome, ok) ==
    /\ task[s].pc = "plan_call"
    /\ ~task[s].cancel
    /\ outcome \in {"raise", "not_object"}
    /\ published' = Publish(published, s, "error", 0)
    /\ active_connections' = send_progress_update(active_connections, s, ok)
    /\ ai_sessions' = except_handler(ai_sessions, s)
    /\ task' = [task EXCEPT ![s].pc = "done", ![s].exit = outcome]
    /\ active_generations' = finally_cleanup(active_generations, s)
    /\ UNCHANGED <<hist, restVars>>

\* _generate_project, lines 106-108 and 115-117: the response is empty, or
\* json.loads raises JSONDecodeError: an error event and a plain return.
TaskPlanRejected(s, outcome, ok) ==
    /\ task[s].pc = "plan_call"
    /\ ~task[s].cancel
    /\ outcome \in {"empty", "malformed"}
    /\ published' = Publish(published, s, "error", 0)
    /\ active_connections' = send_progress_update(active_connections, s, ok)
    /\ task' = [task EXCEPT ![s].pc = "done", ![s].exit = outcome]
    /\ active_generations' = finally_cleanup(active_generations, s)
    /\ UNCHANGED <<ai_sessions, hist, restVars>>

\* _generate_package_json, lines 219-236: the arguments of its generate_text
\* call read user_id, which is no parameter, local or global of the
\* function: NameError, before any provider is called.
\* "raises" is the only outcome.
_generate_package_json == "raises"

\* _generate_project, lines 119-131 and 209-217: the manifest parsed; the
\* registry gets progress 20 and the context; the scaffold step starts and
\* _generate_package_json raises, so the except clause ends the task.
TaskPlanParsed(s, n, ok1, ok2) ==
    /\ task[s].pc = "plan_call"
    /\ ~task[s].cancel
    /\ LET s1 == update_ai_session(ai_sessions, s,
                     [progress |-> 20, context |-> n])
           p1 == Publish(published, s, "progress", 20)
           c1 == send_progress_update(active_connections, s, ok1)
       IN  /\ _generate_package_json = "raises"
           /\ published' = Publish(p1, s, "error", 0)
           /\ active_connections' = send_progress_update(c1, s, ok2)
           /\ ai_sessions' = except_handler(s1, s)
    /\ task' = [task EXCEPT ![s].pc = "done", ![s].exit = "scaffold_raise"]
    /\ active_generations' = finally_cleanup(active_generations, s)
    /\ UNCHANGED <<hist, restVars>>

-----------------------------------------------------------------------------
(* External requests: the service methods behind the REST surface.         *)

NoteStop(h, s) ==
    [h EXCEPT ![s].stop = @ \/ (s \in DOMAIN ai_sessions /\ task[s].pc # "done")]
NoteOther(h, s) == [h EXCEPT ![s].other = TRUE]

\* AIGenerationService.stop_generation
stop_generation(sessions, s) == update_ai_session(sessions, s, [status |-> "stopped"])

\* AIGenerationService.pause_generation
pause_generation(sessions, s) == update_ai_session(sessions, s, [status |-> "paused"])

\* AIGenerationService.resume_generation
resume_generation(sessions, s) ==
    IF s \in DOMAIN sessions /\ get_ai_session(sessions, s).status = "paused"
    THEN update_ai_session(sessions, s, [status |-> "running"])
    ELSE sessions

\* The endpoints' check: 404 without a session, 403 for another user.
Authorized(s, caller) ==
    /\ s \in DOMAIN ai_sessions
    /\ ai_sessions[s].user_id = caller

\* POST /session/{id}/stop
RESTStop(s, caller) ==
    /\ Authorized(s, caller)
    /\ task' = IF s \in active_generations
               THEN [task EXCEPT ![s].cancel = TRUE] ELSE task
    /\ active_generations' = active_generations \ {s}
    /\ ai_sessions' = stop_generation(ai_sessions, s)
    /\ hist' = NoteStop(hist, s)
    /\ UNCHANGED <<active_connections, published, restVars>>

\* POST /session/{id}/pause
RESTPause(s, caller) ==
    /\ Authorized(s, caller)
    /\ ai_sessions' = pause_generation(ai_sessions, s)
    /\ hist' = NoteOther(hist, s)
    /\ UNCHANGED <<active_connections, active_generations, task, published,
                   restVars>>

\* POST /session/{id}/resume
RESTResume(s, caller) ==
    /\ Authorized(s, caller)
    /\ ai_sessions' = resume_generation(ai_sessions, s)
    /\ hist' = NoteOther(hist, s)
    /\ UNCHANGED <<active_connections, active_generations, task, published,
                   restVars>>

\* A stop, pause or resume request of a caller who is not the owner (403),
\* or for a session that does not exist (404): nothing changes.
RESTDenied(s, caller) ==
    /\ ~Authorized(s, caller)
    /\ UNCHANGED vars

-----------------------------------------------------------------------------
(* The websocket endpoint and its control messages (api/websocket.py).     *)

\* websocket_endpoint, lines 57-72: accept, register, confirm.  The
\* endpoint authenticates nobody.
WSConnect(s, ok) ==
    /\ s \in DOMAIN ai_sessions
    /\ s \notin active_connections
    /\ published' = Publish(published, s, "connected", NoProgress)
    /\ active_connections' = send_personal_message(active_connections \cup {s}, s, ok)
    /\ UNCHANGED <<ai_sessions, active_generations, task, hist, restVars>>

\* The registry write of handle_stop_ai / handle_pause_ai / handle_resume_ai.
handle_status(sessions, s, status) ==
    IF s \in DOMAIN sessions
    THEN [sessions EXCEPT ![s].status = status]
    ELSE sessions

handle_stop_ai(sessions, s) == handle_status(sessions, s, "stopped")
handle_pause_ai(sessions, s) == handle_status(sessions, s, "paused")
handle_resume_ai(sessions, s) == handle_status(sessions, s, "running")

\* {"type": "stop_ai"} on the connection of s
WSStop(s, ok) ==
    /\ s \in active_connections
    /\ ai_sessions' = handle_stop_ai(ai_sessions, s)
    /\ published' = Publish(published, s, "stopped", 0)
    /\ active_connections' = send_personal_message(active_connections, s, ok)
    /\ hist' = NoteStop(hist, s)
    /\ UNCHANGED <<active_generations, task, restVars>>

\* {"type": "pause_ai"}
WSPause(s, ok) ==
    /\ s \in active_connections
    /\ ai_sessions' = handle_pause_ai(ai_sessions, s)
    /\ published' = Publish(published, s, "paused", NoProgress)
    /\ active_connections' = send_personal_message(active_connections, s, ok)
    /\ hist' = NoteOther(hist, s)
    /\ UNCHANGED <<active_generations, task, restVars>>

\* {"type": "resume_ai"}
WSResume(s, ok) ==
    /\ s \in active_connections
    /\ ai_sessions' = handle_resume_ai(ai_sessions, s)
    /\ published' = Publish(published, s, "resumed", NoProgress)
    /\ active_connections' = send_personal_message(active_connections, s, ok)
    /\ hist' = NoteOther(hist, s)
    /\ UNCHANGED <<active_generations, task, restVars>>

-----------------------------------------------------------------------------
(* The specification of the generation sessions.                           *)

\* The calls of the AI service in flight, and a call that is not running:
\* where it stands, for whom, the providers it enumerated, the one it is
\* at, the adapter calls it made, how it ended, and the keys it recorded
\* usage for.
CallIds == {"c1"}

IdleCall == [pc |-> "idle", user |-> 0, task |-> "none", providers |-> <<>>,
             idx |-> 0, attempts |-> <<>>, result |-> "none",
             served_by |-> "none", recorded |-> <<>>]

InitAI ==
    /\ keys = <<>>
    /\ calls = [c \in CallIds |-> IdleCall]
    /\ next_key_id = 1

IdleLoop == [total |-> 0, index |-> 0, completed |-> 0, persisted |-> 0,
             events |-> <<>>, pc |-> "idle"]

InitGen ==
    /\ ai_sessions = <<>>
    /\ active_connections = {}
    /\ active_generations = {}
    /\ task = [s \in SessionIds |-> IdleTask]
    /\ published = [s \in SessionIds |-> {}]
    /\ hist = [s \in SessionIds |-> [stop |-> FALSE, other |-> FALSE]]

\* The validate_all_keys calls and the assist requests the model follows.
VaIds == {"v1"}
Handlers == {"h1", "h2"}

\* No call made yet / no call in progress / no request in progress.
NoReply == [op |-> "none"]
IdleVa == [pc |-> "idle", user |-> 0, loaded |-> <<>>, todo |-> <<>>,
           results |-> <<>>]
IdleHandler == [pc |-> "idle", user |-> 0, key |-> 0, session |-> <<>>]

\* No manager set on the service: self.api_key_manager = None.
NoManager == "None"

InitKM ==
    /\ reply = NoReply
    /\ va = [v \in VaIds |-> IdleVa]

InitUsage ==
    /\ handlers = [h \in Handlers |-> IdleHandler]
    /\ api_key_manager = NoManager
    /\ usage_log = <<>>

Init == InitGen /\ loop = IdleLoop /\ InitAI /\ InitKM /\ InitUsage

TaskStep(s) ==
    \/ TaskCancelled(s)
    \/ \E ok \in BOOLEAN : TaskProjectNotFound(s, ok)
    \/ \E ok \in BOOLEAN : TaskBeginPlan(s, ok)
    \/ \E ok \in BOOLEAN, o \in PlanOutcomes : TaskPlanRaised(s, o, ok)
    \/ \E ok \in BOOLEAN, o \in PlanOutcomes : TaskPlanRejected(s, o, ok)
    \/ \E n \in 0..MaxFiles, ok1, ok2 \in BOOLEAN : TaskPlanParsed(s, n, ok1, ok2)

ExternalRequest(s) ==
    \/ \E u \in SessionUsers : RESTStop(s, u)
    \/ \E u \in SessionUsers : RESTPause(s, u)
    \/ \E u \in SessionUsers : RESTResume(s, u)
    \/ \E ok \in BOOLEAN : WSStop(s, ok)
    \/ \E ok \in BOOLEAN : WSPause(s, ok)
    \/ \E ok \in BOOLEAN : WSResume(s, ok)

Next ==
    \E s \in SessionIds :
        \/ \E u \in SessionUsers, pe, ok \in BOOLEAN : StartGeneration(s, u, pe, ok)
        \/ TaskStep(s)
        \/ ExternalRequest(s)
        \/ \E u \in SessionUsers : RESTDenied(s, u)
        \/ \E ok \in BOOLEAN : WSConnect(s, ok)

Spec == Init /\ [][Next]_vars

\* The event loop runs every task that is ready.
FairSpec == Spec /\ \A s \in SessionIds : WF_vars(TaskStep(s))

-----------------------------------------------------------------------------
(* Claims about the generation sessions.                                   *)

Status(s) == get_ai_session(ai_sessions, s).status

PauseRequest(s) ==
    (\E u \in SessionUsers : RESTPause(s, u)) \/ (\E ok \in BOOLEAN : WSPause(s, ok))
ResumeRequest(s) ==
    (\E u \in SessionUsers : RESTResume(s, u)) \/ (\E ok \in BOOLEAN : WSResume(s, ok))
StopRequest(s) ==
    (\E u \in SessionUsers : RESTStop(s, u)) \/ (\E ok \in BOOLEAN : WSStop(s, ok))

StatusStep(s, from, to) ==
    \/ ai_sessions'[s].status = ai_sessions[s].status
    \/ /\ ai_sessions[s].status \in from
       /\ ai_sessions'[s].status = to

\* C1: every status change made by a stop, pause or resume request (REST or
\* websocket) is an allowed transition: pause only running -> paused,
\* resume only paused -> running, stop only running or paused -> stopped;
\* a completed, stopped or error session is never changed by a request.
C1_RequestsFollowStateMachine ==
    [][\A s \in SessionIds :
          s \in DOMAIN ai_sessions =>
            /\ PauseRequest(s) => StatusStep(s, {"running"}, "paused")
            /\ ResumeRequest(s) => StatusStep(s, {"paused"}, "running")
            /\ StopRequest(s) => StatusStep(s, {"running", "paused"}, "stopped")]_vars

\* The task of s ends in this step.
TaskEnds(s) == task[s].pc # "done" /\ task'[s].pc = "done"

\* C2: cooperative stop.  When a stop was issued after file k of the
\* manifest was created and before the pipeline finished (and nothing was
\* paused or resumed), the task ends with the session stopped and a stopped
\* event published.  The code persists no manifest file before the task
\* ends, so k = 0 is the case every run is in.
C2_CooperativeStop ==
    [][\A s \in SessionIds :
          (TaskEnds(s) /\ hist[s].stop /\ ~hist[s].other) =>
            /\ ai_sessions'[s].status = "stopped"
            /\ "stopped" \in {e[1] : e \in published'[s]}]_vars

\* C3: when the plan step's call returns an empty response or text that is
\* no valid JSON, the session's status becomes error.
C3_PlanRejectionSetsError ==
    [][\A s \in SessionIds :
          (TaskEnds(s) /\ task'[s].exit \in {"empty", "malformed"}) =>
            ai_sessions'[s].status = "error"]_vars

FailureExits == {"not_found", "raise", "not_object", "empty", "malformed",
                 "scaffold_raise"}

\* C4: whenever the task exits because a pipeline step failed, the session's
\* status is error at the moment the task exits.
C4_FailureExitLeavesError ==
    [][\A s \in SessionIds :
          (TaskEnds(s) /\ task'[s].exit \in FailureExits) =>
            ai_sessions'[s].status = "error"]_vars

\* C5: a session whose project exists, whose plan call succeeded with a
\* well-formed manifest and to which no stop, pause or resume was issued
\* ends completed, with progress 100 and a completed event published.
C5_UndisturbedRunCompletes ==
    [][\A s \in SessionIds :
          ( /\ TaskEnds(s)
            /\ task[s].project
            /\ task'[s].exit \notin {"raise", "not_object", "empty", "malformed"}
            /\ ~hist[s].stop /\ ~hist[s].other )
          => /\ ai_sessions'[s].status = "completed"
             /\ ai_sessions'[s].progress = 100
             /\ <<"completed", 100>> \in published'[s]]_vars

\* user_id = "anonymous": the user the websocket endpoint gives every
\* connection.
websocket_user == "anonymous"

\* A stop, pause or resume request for s by caller: on the REST surface,
\* where caller is current_user, or as a control message on a connection,
\* where caller is the connection's user.
ControlRequest(s, caller) ==
    \/ RESTStop(s, caller) \/ RESTPause(s, caller) \/ RESTResume(s, caller)
    \/ RESTDenied(s, caller)
    \/ /\ caller = websocket_user
       /\ \E ok \in BOOLEAN : WSStop(s, ok) \/ WSPause(s, ok) \/ WSResume(s, ok)

\* C19: a stop, pause or resume request, on the REST surface or as a
\* control message on the channel, changes the session's record only when
\* the requester is the owner of the session.
C19_ControlOnlyByOwner ==
    [][\A s \in SessionIds, caller \in SessionUsers \cup {websocket_user} :
          (ControlRequest(s, caller) /\ ai_sessions' # ai_sessions)
              => (s \in DOMAIN ai_sessions /\ ai_sessions[s].user_id = caller)]_vars

\* C21: a stop request never interrupts a provider call in flight: a task
\* that is inside its provider call lets the call run to its end, so it
\* never ends there by cancellation.
C21_StopLetsCallFinish ==
    [][\A s \in SessionIds :
          (task[s].pc = "plan_call" /\ TaskEnds(s))
              => task'[s].exit # "cancelled"]_vars

\* The task changes the session's status in this step.
TaskWritesStatus(s) ==
    /\ TaskStep(s)
    /\ s \in DOMAIN ai_sessions
    /\ ai_sessions'[s].status # ai_sessions[s].status

\* C22: the task changes the status only when the status is running: once
\* a stop or pause wrote stopped or paused, no later write of the task
\* (the first write of running with progress 10, a progress write,
\* completed, error) leaves a different status.
C22_TaskWritesOnlyWhenRunning ==
    [][\A s \in SessionIds :
          TaskWritesStatus(s) => ai_sessions[s].status = "running"]_vars

\* C24: whenever the task ends (by completing, by a failure, by halting or
\* by the cancellation a stop requested), the session id is no longer in
\* the active-task table, and every started task is eventually
\* deregistered.
C24_TaskAlwaysDeregistered ==
    /\ [][\A s \in SessionIds :
             TaskEnds(s) => s \notin active_generations']_vars
    /\ \A s \in SessionIds :
          (s \in active_generations) ~> (s \notin active_generations)

\* A task that ended in its except clause and one a stop cancelled inside
\* the provider call: both are deregistered.
C24_Witness ==
    \E s \in SessionIds :
        /\ task[s].pc = "done"
        /\ task[s].exit \in {"raise", "scaffold_raise"}
        /\ s \notin active_generations
        /\ ~hist[s].stop

\* C27: no orphaned running session: a status of running implies that the
\* task has not exited, whatever requests came after the exit.
C27_NoOrphanedRunning ==
    \A s \in DOMAIN ai_sessions :
        ai_sessions[s].status = "running" => task[s].pc # "done"

-----------------------------------------------------------------------------
(* The progress arithmetic of step 3 and the order of step 4               *)
(* (_generate_project, lines 148-205), applied to every manifest size and  *)
(* every pattern of files whose content came back empty.  loop.events is   *)
(* the sequence of the events the loop and the finalize step publish.      *)

\* Largest manifest the loop is applied to.
MaxManifest == 6

\* A mutant of file_progress: the share of the files scaled to 100.
file_progress_percent(completed_files, total_files) ==
    30 + (completed_files * 100) \div total_files

\* int(30 + (completed_files / total_files) * 60), lines 172 and 177.
file_progress(completed_files, total_files) ==
    30 + (completed_files * 60) \div total_files

\* total_files = len(files_to_create); completed_files = 0
LoopEnter(n) ==
    /\ loop.pc = "idle"
    /\ loop' = [total |-> n, index |-> 0, completed |-> 0, persisted |-> 0,
                events |-> <<>>, pc |-> "loop"]
    /\ UNCHANGED <<genVars, aiVars, kmVars, usageVars>>

\* One iteration with the registry saying running, lines 158-181:
\* if file_content: create the file, count it and publish file_created;
\* a file without content is passed over.
LoopFile(has_content) ==
    /\ loop.pc = "loop"
    /\ loop.index < loop.total
    /\ loop' =
         IF has_content
         THEN [loop EXCEPT !.index = @ + 1,
                           !.completed = @ + 1,
                           !.events = Append(@, <<"file_created",
                               file_progress(loop.completed + 1, loop.total)>>)]
         ELSE [loop EXCEPT !.index = @ + 1]
    /\ UNCHANGED <<genVars, aiVars, kmVars, usageVars>>

\* Lines 153-156: the registry no longer says running at the top of an
\* iteration: publish stopped and return.
LoopHalt ==
    /\ loop.pc = "loop"
    /\ loop.index < loop.total
    /\ loop' = [loop EXCEPT !.pc = "halted",
                            !.events = Append(@, <<"stopped", 0>>)]
    /\ UNCHANGED <<genVars, aiVars, kmVars, usageVars>>

\* Step 4, lines 186-205: progress 90, then completed with 100.
LoopFinalize ==
    /\ loop.pc = "loop"
    /\ loop.index = loop.total
    /\ loop' = [loop EXCEPT !.pc = "done",
                            !.events = @ \o <<<<"progress", 90>>, <<"completed", 100>>>>]
    /\ UNCHANGED <<genVars, aiVars, kmVars, usageVars>>

InitProgress == Init

NextProgress ==
    \/ \E n \in 1..MaxManifest : LoopEnter(n)
    \/ \E c \in BOOLEAN : LoopFile(c)
    \/ LoopHalt
    \/ LoopFinalize

SpecProgress == InitProgress /\ [][NextProgress]_vars

FileCreatedAt == {i \in 1..Len(loop.events) : loop.events[i][1] = "file_created"}

\* the number of file_created events among the first i events
CreatedUpTo(i) == Cardinality({j \in FileCreatedAt : j <= i})

\* C6: the progress values of successive file_created events are
\* non-decreasing, each lies between 30 and 90 and is the integer part of
\* 30 + (completedFiles/totalFiles)*60, and the completed event with
\* progress 100 comes only after all of them.
C6_FileProgressMonotone ==
    LET ev == loop.events IN
    /\ \A i \in FileCreatedAt :
         LET p == ev[i][2]
             c == CreatedUpTo(i) IN
         /\ 30 <= p /\ p <= 90
         /\ (p - 30) * loop.total <= 60 * c
         /\ 60 * c < (p - 30 + 1) * loop.total
         /\ \A j \in FileCreatedAt : j < i => ev[j][2] <= p
    /\ \A i \in 1..Len(ev) :
         ev[i][1] = "completed" =>
            /\ ev[i][2] = 100
            /\ \A j \in FileCreatedAt : j < i
            /\ loop.index = loop.total

C6_Witness ==
    /\ loop.pc = "done"
    /\ loop.total >= 3
    /\ Cardinality(FileCreatedAt) >= 2
    /\ Cardinality(FileCreatedAt) < loop.total
    /\ loop.events[Len(loop.events)] = <<"completed", 100>>

-----------------------------------------------------------------------------
(* The progress channel seen from a publisher: one call of                 *)
(* send_progress_update for session s, with the socket's send succeeding  *)
(* (ok) or raising.  reply records what the call found and did.            *)

PublishCall(s, ok) ==
    /\ published' = Publish(published, s, "progress", 0)
    /\ active_connections' = send_progress_update(active_connections, s, ok)
    /\ reply' = [op |-> "publish", session |-> s,
                 attached |-> s \in active_connections,
                 ok |-> ok,
                 delivered |-> delivered(active_connections, s, ok)]
    /\ UNCHANGED <<ai_sessions, active_generations, task, hist, keys, calls,
                   next_key_id, loop, va, usageVars>>

NextChannel ==
    \/ Next
    \/ \E s \in SessionIds, ok \in BOOLEAN : PublishCall(s, ok)

SpecChannel == Init /\ [][NextChannel]_vars

\* C26: a publish whose delivery fails returns without an error, detaches
\* the subscriber and leaves the session's record (status, progress,
\* context) as it was; publishes for a session without a subscriber are
\* dropped, and only a new connection attaches a subscriber again.
C26_FailedDeliveryDetaches ==
    [][\A s \in SessionIds :
          /\ \A ok \in BOOLEAN :
                PublishCall(s, ok) =>
                  /\ ai_sessions' = ai_sessions
                  /\ task' = task
                  /\ (s \in active_connections /\ ~ok)
                        => (s \notin active_connections' /\ ~reply'.delivered)
                  /\ (s \notin active_connections)
                        => (s \notin active_connections' /\ ~reply'.delivered)
          /\ (s \notin active_connections /\ s \in active_connections')
                => \E ok \in BOOLEAN : WSConnect(s, ok)]_vars

\* A publish for a running session found a subscriber, its send failed, and
\* the subscriber is detached.
C26_Witness ==
    /\ reply.op = "publish"
    /\ reply.attached /\ ~reply.ok /\ ~reply.delivered
    /\ reply.session \in DOMAIN ai_sessions
    /\ ai_sessions[reply.session].status = "running"
    /\ reply.session \notin active_connections

-----------------------------------------------------------------------------
(* Steps 3 and 4 of _generate_project together with the session they act   *)
(* on: the file loop with its status check, the provider call of each      *)
(* file, the finalize step, and the stop, pause and resume requests that   *)
(* arrive in between.  SpecLoop starts where step 2 has returned; the      *)
(* source's _generate_package_json raises before that point, so these      *)
(* steps are followed here as they are written.                            *)

\* A mutant of loop_continues: only a stopped session halts the loop.
loop_continues_unless_stopped(sessions, s) ==
    s \in DOMAIN sessions /\ get_ai_session(sessions, s).status # "stopped"

\* Lines 152-153, negated: session and session.get("status") == "running".
loop_continues(sessions, s) ==
    s \in DOMAIN sessions /\ get_ai_session(sessions, s).status = "running"

\* Lines 137-148: progress 30 written and published, the counters set; the
\* task is suspended in the send before the loop's first check.  n is
\* len(files_to_create).
LoopStart(s, user_id, n, ok) ==
    /\ s \notin DOMAIN ai_sessions
    /\ loop.pc = "idle"
    /\ ai_sessions' = update_ai_session(create_ai_session(ai_sessions, s, user_id),
                          s, [progress |-> 30, context |-> n])
    /\ task' = [task EXCEPT ![s] = [pc |-> "file_check", cancel |-> FALSE,
                                    project |-> TRUE, exit |-> "none"]]
    /\ active_generations' = active_generations \cup {s}
    /\ published' = Publish(published, s, "progress", 30)
    /\ active_connections' = send_progress_update(active_connections, s, ok)
    /\ loop' = [total |-> n, index |-> 0, completed |-> 0, persisted |-> 0,
                events |-> <<>>, pc |-> "loop"]
    /\ UNCHANGED <<hist, keys, calls, next_key_id, kmVars, usageVars>>

\* Lines 150-165: the top of an iteration.  With the status running the
\* task enters _generate_file_content; otherwise it publishes stopped and
\* returns, and the finally clause runs.
FileCheck(s, ok) ==
    /\ task[s].pc = "file_check"
    /\ ~task[s].cancel
    /\ loop.index < loop.total
    /\ IF loop_continues(ai_sessions, s)
       THEN /\ task' = [task EXCEPT ![s].pc = "file_call"]
            /\ UNCHANGED <<published, active_connections, active_generations>>
       ELSE /\ published' = Publish(published, s, "stopped", 0)
            /\ active_connections' = send_progress_update(active_connections, s, ok)
            /\ task' = [task EXCEPT ![s].pc = "done", ![s].exit = "halted"]
            /\ active_generations' = finally_cleanup(active_generations, s)
    /\ UNCHANGED <<ai_sessions, hist, restVars>>

\* Lines 163-184, 290-320 and 322-351: _generate_file_content returns.
\* has_content is FALSE for None (the except clause of
\* _generate_file_content, which its NameError on user_id always reaches)
\* and for empty text; the file is then passed over.  Otherwise _create_file
\* runs, and persisted is FALSE when it caught an exception and rolled
\* back; completed_files is counted and file_created published either way.
FileReturn(s, has_content, persisted, ok) ==
    /\ task[s].pc = "file_call"
    /\ ~task[s].cancel
    /\ IF has_content
       THEN /\ loop' = [loop EXCEPT !.index = @ + 1,
                                    !.completed = @ + 1,
                                    !.persisted = IF persisted THEN @ + 1 ELSE @]
            /\ published' = Publish(published, s, "file_created",
                                 file_progress(loop.completed + 1, loop.total))
            /\ active_connections' = send_progress_update(active_connections, s, ok)
       ELSE /\ loop' = [loop EXCEPT !.index = @ + 1]
            /\ UNCHANGED <<published, active_connections>>
    /\ task' = [task EXCEPT ![s].pc = "file_check"]
    /\ UNCHANGED <<ai_sessions, active_generations, hist, keys, calls,
                   next_key_id, kmVars, usageVars>>

\* Step 4, lines 186-205 and 214-217: the loop is through; progress 90 is
\* published, completed with progress 100 written and published.
Finalize(s, ok1, ok2) ==
    /\ task[s].pc = "file_check"
    /\ ~task[s].cancel
    /\ loop.index = loop.total
    /\ ai_sessions' = update_ai_session(ai_sessions, s,
                          [status |-> "completed", progress |-> 100])
    /\ published' = Publish(Publish(published, s, "progress", 90),
                            s, "completed", 100)
    /\ active_connections' =
           send_progress_update(send_progress_update(active_connections, s, ok1),
                                s, ok2)
    /\ task' = [task EXCEPT ![s].pc = "done", ![s].exit = "completed"]
    /\ active_generations' = finally_cleanup(active_generations, s)
    /\ loop' = [loop EXCEPT !.pc = "done"]
    /\ UNCHANGED <<hist, keys, calls, next_key_id, kmVars, usageVars>>

NextLoop ==
    \E s \in SessionIds :
        \/ \E u \in SessionUsers, n \in 0..MaxFiles, ok \in BOOLEAN :
               LoopStart(s, u, n, ok)
        \/ \E ok \in BOOLEAN : FileCheck(s, ok)
        \/ \E c, p, ok \in BOOLEAN : FileReturn(s, c, p, ok)
        \/ \E ok1, ok2 \in BOOLEAN : Finalize(s, ok1, ok2)
        \/ TaskCancelled(s)
        \/ ExternalRequest(s)
        \/ \E ok \in BOOLEAN : WSConnect(s, ok)

SpecLoop == Init /\ [][NextLoop]_vars

\* C23: pause halts like stop: when the status is paused at the loop's
\* check the task halts for good; a later resume sets the status to running
\* but no further file is created and no completed event is published.
C23_PauseHaltsForGood ==
    [][\A s \in SessionIds :
          /\ ((\E ok \in BOOLEAN : FileCheck(s, ok))
                 /\ ai_sessions[s].status = "paused")
                 => task'[s].pc = "done"
          /\ (task[s].pc = "done" /\ task[s].exit = "halted")
                 => /\ task'[s] = task[s]
                    /\ loop' = loop
                    /\ "file_created" \in {e[1] : e \in published'[s]}
                          => "file_created" \in {e[1] : e \in published[s]}
                    /\ "completed" \notin {e[1] : e \in published'[s]}]_vars

\* A task halted by a pause (no stop was ever issued) with files still to
\* create, and the session resumed to running afterwards.
C23_Witness ==
    \E s \in SessionIds :
        /\ task[s].pc = "done" /\ task[s].exit = "halted"
        /\ ~hist[s].stop
        /\ s \in DOMAIN ai_sessions /\ ai_sessions[s].status = "running"
        /\ loop.completed >= 1
        /\ loop.index < loop.total

-----------------------------------------------------------------------------
(* The key validator (api_key_validator.py).                               *)
(*                                                                         *)
(* validate_key sends one probe to the vendor and classifies the answer.   *)
(* The answer is an input: the HTTP status, for a 400 whether the payload  *)
(* names an invalid key, for a 200 whether the body can be read, or the    *)
(* request failing before any status comes back.                           *)

\* The providers validate_key has a branch for; any other is unsupported.
ValidatorProviders == {"openai", "google", "anthropic", "huggingface",
                       "together", "fireworks", "cohere", "groq"}

Probes == {"200", "200_unreadable", "204", "400", "400_invalid_api_key",
           "401", "403", "429", "500", "network"}

\* response.status of a probe that was answered.
http_status(probe) ==
    CASE probe \in {"200", "200_unreadable"} -> 200
      [] probe = "204" -> 204
      [] probe \in {"400", "400_invalid_api_key"} -> 400
      [] probe = "401" -> 401
      [] probe = "403" -> 403
      [] probe = "429" -> 429
      [] OTHER -> 500

StatusText == [s \in {200, 204, 400, 401, 403, 429, 500} |->
                 CASE s = 200 -> "200" [] s = 204 -> "204" [] s = 400 -> "400"
                   [] s = 401 -> "401" [] s = 403 -> "403" [] s = 429 -> "429"
                   [] OTHER -> "500"]

\* error_message=None
NoError == "None"

ValidationResult(is_valid, error_message) ==
    [is_valid |-> is_valid, error_message |-> error_message]

\* except Exception as e: ValidationResult(False, f"Network error: {e}")
network_error == ValidationResult(FALSE, "Network error")

\* else: ValidationResult(False, f"API error: {status} - {text}")
api_error(probe) ==
    ValidationResult(FALSE, "API error: " \o StatusText[http_status(probe)])

\* _validate_openai_key: 200 valid, 401 and 429 named, the rest API error.
_validate_openai_key(probe) ==
    CASE probe = "network" -> network_error
      [] probe = "200_unreadable" -> network_error
      [] http_status(probe) = 200 -> ValidationResult(TRUE, NoError)
      [] http_status(probe) = 401 -> ValidationResult(FALSE, "Invalid API key")
      [] http_status(probe) = 429 -> ValidationResult(FALSE, "Rate limit exceeded")
      [] OTHER -> api_error(probe)

\* _validate_google_key: 200 valid, 400 an invalid key, the rest (401
\* included) API error.
_validate_google_key(probe) ==
    CASE probe = "network" -> network_error
      [] probe = "200_unreadable" -> network_error
      [] http_status(probe) = 200 -> ValidationResult(TRUE, NoError)
      [] http_status(probe) = 400 -> ValidationResult(FALSE, "Invalid API key")
      [] OTHER -> api_error(probe)

\* _validate_anthropic_key: 200 valid (the body is not read), 401 invalid,
\* 400 invalid when the payload names invalid_api_key and valid otherwise.
_validate_anthropic_key(probe) ==
    CASE probe = "network" -> network_error
      [] http_status(probe) = 200 -> ValidationResult(TRUE, NoError)
      [] http_status(probe) = 401 -> ValidationResult(FALSE, "Invalid API key")
      [] probe = "400_invalid_api_key" -> ValidationResult(FALSE, "Invalid API key")
      [] http_status(probe) = 400 -> ValidationResult(TRUE, NoError)
      [] OTHER -> api_error(probe)

\* _validate_huggingface_key, _validate_together_key,
\* _validate_fireworks_key, _validate_cohere_key, _validate_groq_key:
\* 200 valid, 401 invalid, the rest API error.
_validate_bearer_key(probe) ==
    CASE probe = "network" -> network_error
      [] probe = "200_unreadable" -> network_error
      [] http_status(probe) = 200 -> ValidationResult(TRUE, NoError)
      [] http_status(probe) = 401 -> ValidationResult(FALSE, "Invalid API key")
      [] OTHER -> api_error(probe)

\* APIKeyValidator.validate_key: the dispatch on the provider.
validate_key(provider, probe) ==
    CASE provider = "openai" -> _validate_openai_key(probe)
      [] provider = "google" -> _validate_google_key(probe)
      [] provider = "anthropic" -> _validate_anthropic_key(probe)
      [] provider \in {"huggingface", "together", "fireworks", "cohere", "groq"}
            -> _validate_bearer_key(probe)
      [] OTHER -> ValidationResult(FALSE, "Unsupported provider: " \o provider)

\* A client of the validator validates a key.
ValidateKey(provider, probe) ==
    /\ reply' = [op |-> "validate", provider |-> provider, probe |-> probe,
                 result |-> validate_key(provider, probe)]
    /\ UNCHANGED <<genVars, aiVars, loop, va, usageVars>>

-----------------------------------------------------------------------------
(* The key store and manager (api_key_manager.py, models.py).              *)

\* ProviderEnum, in the order "for provider in ProviderEnum" visits it.
ProviderEnum == <<"openai", "google", "huggingface", "together", "fireworks",
                  "other">>

\* How many members of ProviderEnum keys are added for.
NumProviders == 3
Providers == {ProviderEnum[i] : i \in 1..NumProviders}

KeyUsers == {1, 2}

\* Most keys ever added, and the usage a key is driven to.
MaxKeys == 2
MaxUsage == 1

\* monthly_limit is NULL
NoLimit == -1

\* display_name=None of add_api_key
NoName == "None"

\* display_name or f"{provider.value} Key"
default_display_name(provider, display_name) ==
    IF display_name = NoName THEN provider \o " Key" ELSE display_name

KeyIds == DOMAIN keys

\* .first(): the queries have no ORDER BY; the table has one row for a user
\* and a provider (uq_user_provider), so the filters below select at most
\* one row.

\* A mutant of get_available_api_key: the is_active filter left out.
get_available_api_key_any_active(user_id, provider) ==
    {k \in KeyIds :
        /\ keys[k].user_id = user_id
        /\ keys[k].provider = provider
        /\ keys[k].is_validated
        /\ ~(keys[k].monthly_limit > 0
             /\ keys[k].current_month_usage >= keys[k].monthly_limit)}

\* APIKeyManager.get_available_api_key: the set holding the key returned,
\* empty for None.  The time since last_used_at is computed and not used.
\* "if key.monthly_limit and ...": a limit of NULL or 0 is no limit.
get_available_api_key(user_id, provider) ==
    {k \in KeyIds :
        /\ keys[k].user_id = user_id
        /\ keys[k].provider = provider
        /\ keys[k].is_active
        /\ keys[k].is_validated
        /\ ~(keys[k].monthly_limit > 0
             /\ keys[k].current_month_usage >= keys[k].monthly_limit)}

\* return None of get_available_api_key; the ids of rows start at 1.
NoKey == 0

\* APIKeyManager.get_available_api_key, statement by statement: every value
\* the call may return.  .first() hands back any one row that passes the
\* filter (user, provider, is_active, is_validated; no ORDER BY), or None
\* when there is none; only that one row is then held against its monthly
\* limit, and None is returned when it is exhausted.
get_available_api_key_returns(user_id, provider) ==
    LET first == {k \in KeyIds : /\ keys[k].user_id = user_id
                                 /\ keys[k].provider = provider
                                 /\ keys[k].is_active
                                 /\ keys[k].is_validated}
        exhausted(k) == /\ keys[k].monthly_limit > 0
                        /\ keys[k].current_month_usage >= keys[k].monthly_limit
    IN  IF first = {} THEN {NoKey}
        ELSE {IF exhausted(k) THEN NoKey ELSE k : k \in first}

\* APIKeyManager.update_key_usage (last_used_at is not kept).
update_key_usage(rows, key_id, tokens_used) ==
    IF key_id \in DOMAIN rows
    THEN [rows EXCEPT ![key_id].usage_count = @ + 1,
                      ![key_id].current_month_usage = @ + tokens_used]
    ELSE rows

\* What a validation comes to: the vendor's answer to the probe, or the
\* validator failing before it classifies anything (async with validator).
ValidationOutcomes == {"200", "401", "network", "raise"}

\* A mutant of uq_user_provider: a table without the constraint.
uq_user_provider_absent(user_id, provider) == {}

\* The rows add_api_key looks up: the same user, provider and display name
\* (display_name=None compares with IS NULL and finds no row, every row
\* having a name), and the rows uq_user_provider sets against an insert.
existing_key(user_id, provider, display_name) ==
    {k \in KeyIds : /\ keys[k].user_id = user_id
                    /\ keys[k].provider = provider
                    /\ display_name # NoName
                    /\ keys[k].display_name = display_name}

uq_user_provider(user_id, provider) ==
    {k \in KeyIds : /\ keys[k].user_id = user_id
                    /\ keys[k].provider = provider}

\* The way add_api_key takes: the validation raising (except clause), the
\* key invalid, a row updated, an insert refused by the constraint
\* (except clause), a row inserted.
add_api_key_path(user_id, provider, display_name, validation) ==
    IF validation = "raise" THEN "raise"
    ELSE IF ~ validate_key(provider, validation).is_valid THEN "invalid"
    ELSE IF existing_key(user_id, provider, display_name) # {} THEN "update"
    ELSE IF uq_user_provider(user_id, provider) # {} THEN "integrity_error"
    ELSE "insert"

\* A variant of invalid_key_result: the message wrapped as the except
\* clause wraps it.
invalid_key_result_wrapped(validation_result) ==
    [success |-> FALSE, key_id |-> 0,
     error |-> "Failed to add API key: " \o validation_result.error_message]

\* return {"success": False, "error": validation_result.error_message}
invalid_key_result(validation_result) ==
    [success |-> FALSE, key_id |-> 0,
     error |-> validation_result.error_message]

\* What add_api_key returns.
add_api_key_result(user_id, provider, display_name, validation) ==
    LET path == add_api_key_path(user_id, provider, display_name, validation)
    IN  CASE path = "invalid" ->
                invalid_key_result(validate_key(provider, validation))
          [] path = "update" ->
                [success |-> TRUE, error |-> NoError,
                 key_id |-> CHOOSE k \in existing_key(user_id, provider,
                                                      display_name) : TRUE]
          [] path = "insert" ->
                [success |-> TRUE, error |-> NoError, key_id |-> next_key_id]
          [] OTHER ->
                [success |-> FALSE, key_id |-> 0,
                 error |-> "Failed to add API key"]

\* APIKeyManager.add_api_key.  An invalid key or a raising validation
\* returns success=False and writes nothing.  A row with the same user,
\* provider and display name is overwritten.  Otherwise a row is inserted,
\* and the insert fails on uq_user_provider when the user has a row for
\* the provider: rollback, success=False.
AddKey(user_id, provider, api_key, display_name, validation) ==
    /\ next_key_id <= MaxKeys
    /\ LET path == add_api_key_path(user_id, provider, display_name, validation)
           existing == existing_key(user_id, provider, display_name)
       IN  CASE path = "update" ->
                /\ keys' = [k \in KeyIds |->
                              IF k \in existing
                              THEN [keys[k] EXCEPT !.api_key = api_key,
                                                   !.is_validated = TRUE]
                              ELSE keys[k]]
                /\ UNCHANGED next_key_id
             [] path = "insert" ->
                /\ keys' = [k \in KeyIds \cup {next_key_id} |->
                              IF k = next_key_id
                              THEN [user_id |-> user_id,
                                    provider |-> provider,
                                    api_key |-> api_key,
                                    display_name |->
                                        default_display_name(provider, display_name),
                                    is_active |-> TRUE,
                                    is_validated |-> TRUE,
                                    usage_count |-> 0,
                                    current_month_usage |-> 0,
                                    monthly_limit |-> NoLimit]
                              ELSE keys[k]]
                /\ next_key_id' = next_key_id + 1
             [] OTHER -> UNCHANGED <<keys, next_key_id>>
    /\ UNCHANGED <<genVars, calls, loop, va, usageVars>>

\* A caller of add_api_key and what it is handed back.
AddKeyCall(user_id, provider, api_key, display_name, validation) ==
    /\ AddKey(user_id, provider, api_key, display_name, validation)
    /\ reply' = [op |-> "add", user_id |-> user_id, provider |-> provider,
                 api_key |-> api_key, display_name |-> display_name,
                 validation |-> validation,
                 result |-> add_api_key_result(user_id, provider,
                                               display_name, validation)]

\* A variant of owned_key: the user_id filter left out.
owned_key_of_anyone(key_id, user_id) ==
    {k \in KeyIds : k = key_id}

\* The row deactivate_key and delete_key look up:
\* filter(UserAPIKey.id == key_id, UserAPIKey.user_id == user_id).first()
owned_key(key_id, user_id) ==
    {k \in KeyIds : k = key_id /\ keys[k].user_id = user_id}

\* APIKeyManager.deactivate_key: only a key of the caller, else False.
DeactivateKey(key_id, user_id) ==
    /\ keys' = [k \in KeyIds |->
                  IF k \in owned_key(key_id, user_id)
                  THEN [keys[k] EXCEPT !.is_active = FALSE]
                  ELSE keys[k]]
    /\ UNCHANGED <<genVars, calls, next_key_id, loop, va, usageVars>>

\* APIKeyManager.delete_key: only a key of the caller, else False.
DeleteKey(key_id, user_id) ==
    /\ keys' = [k \in KeyIds \ owned_key(key_id, user_id) |-> keys[k]]
    /\ UNCHANGED <<genVars, calls, next_key_id, loop, va, usageVars>>

\* What deactivate_key and delete_key return: True when the row was found.
owned_key_result(key_id, user_id) == owned_key(key_id, user_id) # {}

\* The key ids a request can name: those of rows, and ids of no row.
KeyIdInputs == 1..(MaxKeys + 1)

\* A caller of deactivate_key / delete_key and what it is handed back;
\* before is the row the id named when the call was made, if any.
DeactivateKeyCall(key_id, user_id) ==
    /\ DeactivateKey(key_id, user_id)
    /\ reply' = [op |-> "deactivate", key_id |-> key_id, user_id |-> user_id,
                 before |-> {keys[k] : k \in KeyIds \cap {key_id}},
                 result |-> owned_key_result(key_id, user_id)]

DeleteKeyCall(key_id, user_id) ==
    /\ DeleteKey(key_id, user_id)
    /\ reply' = [op |-> "delete", key_id |-> key_id, user_id |-> user_id,
                 before |-> {keys[k] : k \in KeyIds \cap {key_id}},
                 result |-> owned_key_result(key_id, user_id)]

\* Largest monthly limit a key is given.
MaxLimit == 1

\* monthly_limit is written by no code of the repository: the operator of
\* the database sets it (a cap of 0 included) or clears it.
SetMonthlyLimit(key_id, limit) ==
    /\ key_id \in KeyIds
    /\ keys[key_id].monthly_limit # limit
    /\ keys' = [keys EXCEPT ![key_id].monthly_limit = limit]
    /\ UNCHANGED <<genVars, calls, next_key_id, loop, kmVars, usageVars>>

\* A caller of get_available_api_key and the rows it is handed (none or
\* one), each with its id.
SelectKeyCall(user_id, provider) ==
    /\ reply' = [op |-> "select", user_id |-> user_id, provider |-> provider,
                 result |-> {[id |-> k, row |-> keys[k]] :
                                k \in get_available_api_key(user_id, provider)}]
    /\ UNCHANGED <<genVars, aiVars, loop, va, usageVars>>

\* A caller of update_key_usage with a session that holds no row yet.
RecordUsageCall(key_id, tokens_used) ==
    /\ key_id \in KeyIds => keys[key_id].usage_count < MaxUsage
    /\ keys' = update_key_usage(keys, key_id, tokens_used)
    /\ reply' = [op |-> "record", key_id |-> key_id, tokens_used |-> tokens_used]
    /\ UNCHANGED <<genVars, calls, next_key_id, loop, va, usageVars>>

\* APIKeyManager.reset_monthly_usage: one UPDATE over every row.
ResetMonthlyUsage ==
    /\ keys' = [k \in KeyIds |-> [keys[k] EXCEPT !.current_month_usage = 0]]
    /\ reply' = [op |-> "reset"]
    /\ UNCHANGED <<genVars, calls, next_key_id, loop, va, usageVars>>

\* The ids of a set of rows in ascending order (the query has no ORDER BY;
\* the order of the probes does not change what is stored or reported).
RECURSIVE InOrder(_)
InOrder(ids) ==
    IF ids = {} THEN <<>>
    ELSE LET m == CHOOSE k \in ids : \A j \in ids : k <= j
         IN  <<m>> \o InOrder(ids \ {m})

\* validate_all_keys, up to the first probe: the active rows of the user
\* are loaded into the session of the request.
VaBegin(v, user_id) ==
    /\ va[v].pc = "idle"
    /\ LET rows == {k \in KeyIds : keys[k].user_id = user_id /\ keys[k].is_active}
       IN  va' = [va EXCEPT ![v] =
                    [pc |-> "probing", user |-> user_id,
                     loaded |-> [k \in rows |-> keys[k]],
                     todo |-> InOrder(rows),
                     results |-> <<>>]]
    /\ UNCHANGED <<genVars, aiVars, loop, reply, usageVars>>

\* validate_all_keys, one turn of "for key in keys": the probe of the
\* loaded row's provider and secret is answered and is_validated is set on
\* the loaded row.  validate_key returns a result for every answer and for
\* every failure of the request, so the except clause of the turn is not
\* entered.
VaProbe(v, probe) ==
    /\ va[v].pc = "probing"
    /\ va[v].todo # <<>>
    /\ LET k == Head(va[v].todo)
           validation_result == validate_key(va[v].loaded[k].provider, probe)
       IN  va' = [va EXCEPT ![v].todo = Tail(@),
                            ![v].results =
                                [j \in DOMAIN @ \cup {k} |->
                                    IF j = k THEN validation_result ELSE @[j]]]
    /\ UNCHANGED <<genVars, aiVars, loop, reply, usageVars>>

\* self.db.commit() for one loaded row: the unit of work writes the
\* columns whose value differs from the loaded one, so is_validated is
\* written when the result differs from the flag as it was loaded
\* (last_validated_at, always written, is not kept).
flush_is_validated(row, loaded_row, is_valid) ==
    IF is_valid # loaded_row.is_validated
    THEN [row EXCEPT !.is_validated = is_valid]
    ELSE row

\* validate_all_keys, the end: self.db.commit() and return results.  The
\* UPDATE of a row that was deleted since it was loaded matches no row:
\* the commit raises (StaleDataError), nothing is written and nothing is
\* returned.
VaCommit(v) ==
    /\ va[v].pc = "probing"
    /\ va[v].todo = <<>>
    /\ LET loaded == va[v].loaded
           results == va[v].results
           stale == DOMAIN loaded \ KeyIds
       IN  /\ keys' = IF stale # {} THEN keys
                      ELSE [k \in KeyIds |->
                              IF k \in DOMAIN loaded
                              THEN flush_is_validated(keys[k], loaded[k],
                                                      results[k].is_valid)
                              ELSE keys[k]]
           /\ reply' = [op |-> "validate_all", user_id |-> va[v].user,
                        raised |-> stale # {},
                        loaded |-> DOMAIN loaded,
                        results |-> IF stale # {} THEN <<>> ELSE results]
    /\ va' = [va EXCEPT ![v] = IdleVa]
    /\ UNCHANGED <<genVars, calls, next_key_id, loop, usageVars>>

-----------------------------------------------------------------------------
(* The multi-provider AI service (multi_provider_ai_service.py).           *)
(*                                                                         *)
(* The six tasks have one shape: enumerate the providers, fail when there  *)
(* are none, try each in order.  The answer of a vendor is an input: the   *)
(* model does not decide which credential a vendor accepts (generate_text  *)
(* hands the adapter the key row, the other tasks the row's api_key).      *)

Tasks == {"suggest", "analyze", "complete", "refactor", "explain",
          "generateText"}

\* What an adapter call gives: "fail" when it raises (HTTP status not 200,
\* network error, unexpected response shape), else the text it extracted:
\* plain text, the text of a JSON object, the text of other JSON (a list,
\* a number, null), or no text at all (a null content field).
AdapterReturns == {"fail", "text", "json_object", "json_other", "null"}

\* The providers _call_provider has a branch for; the others raise before
\* any request is made.
Supported == {"openai", "google", "anthropic", "together", "fireworks",
              "cohere", "groq"}

\* MultiProviderAIService._get_available_providers: one (provider, key)
\* pair for every member of ProviderEnum that has an available key.
_get_available_providers(user_id) ==
    LET has(p) == get_available_api_key(user_id, p) # {}
        ps == SelectSeq(ProviderEnum, has)
    IN  [i \in 1..Len(ps) |->
            <<ps[i], CHOOSE k \in get_available_api_key(user_id, ps[i]) : TRUE>>]

\* Whether the task calls update_key_usage after the adapter returned:
\* every task but generate_text.
records_usage(t) == t # "generateText"

\* What the task does with the adapter's text, after the usage update and
\* inside the same try: .strip() (suggest, complete, refactor, explain)
\* raises on None; analyze's json.loads raises TypeError on None, falls
\* back on JSONDecodeError, and .get raises on JSON that is no object;
\* generate_text returns the text as it is.
post_process(t, text) ==
    CASE t = "generateText" -> "ok"
      [] t = "analyze" -> IF text \in {"text", "json_object"} THEN "ok" ELSE "raise"
      [] OTHER -> IF text = "null" THEN "raise" ELSE "ok"

\* A mutant of no_providers_error: the same exception as at the end.
no_providers_error_generic == "Exception"

\* raise ValueError("No API keys available for AI services")
no_providers_error == "ValueError"

\* raise Exception("All available providers failed ...")
all_failed_error == "Exception"

\* The start of a task: the enumeration and the empty check.
CallBegin(c, user_id, t) ==
    /\ calls[c].pc = "idle"
    /\ LET available_providers == _get_available_providers(user_id)
       IN  calls' = [calls EXCEPT ![c] =
              IF available_providers = <<>>
              THEN [IdleCall EXCEPT !.pc = "done", !.user = user_id, !.task = t,
                                    !.result = no_providers_error]
              ELSE [IdleCall EXCEPT !.pc = "calling", !.user = user_id,
                                    !.task = t,
                                    !.providers = available_providers,
                                    !.idx = 1]]
    /\ UNCHANGED <<genVars, keys, next_key_id, loop, kmVars, usageVars>>

\* The call goes on with the next provider, or ends with the aggregate
\* failure.
NextProvider(call) ==
    IF call.idx < Len(call.providers)
    THEN [call EXCEPT !.idx = @ + 1]
    ELSE [call EXCEPT !.pc = "done", !.result = all_failed_error]

\* One turn of "for provider, api_key in available_providers": the adapter
\* call and what follows it up to the return or the except clause.
\* call.attempts lists the adapter calls made and whether they returned,
\* call.recorded the keys update_key_usage was called for.
CallAttempt(c, text) ==
    /\ calls[c].pc = "calling"
    /\ LET call == calls[c]
           p == call.providers[call.idx][1]
           key_id == call.providers[call.idx][2]
       IN  IF p \notin Supported
           THEN /\ text = "fail"
                /\ calls' = [calls EXCEPT ![c] = NextProvider(call)]
                /\ UNCHANGED keys
           ELSE LET tried == [call EXCEPT !.attempts = Append(@, <<p, text # "fail">>)]
                IN  IF text = "fail"
                    THEN /\ calls' = [calls EXCEPT ![c] = NextProvider(tried)]
                         /\ UNCHANGED keys
                    ELSE /\ records_usage(call.task) /\ key_id \in KeyIds
                              => keys[key_id].usage_count < MaxUsage
                         /\ keys' = IF records_usage(call.task)
                                    THEN update_key_usage(keys, key_id, 1)
                                    ELSE keys
                         /\ LET used == IF records_usage(call.task)
                                        THEN [tried EXCEPT !.recorded = Append(@, key_id)]
                                        ELSE tried
                            IN  calls' = [calls EXCEPT ![c] =
                                   IF post_process(call.task, text) = "ok"
                                   THEN [used EXCEPT !.pc = "done",
                                                     !.result = "ok",
                                                     !.served_by = p]
                                   ELSE NextProvider(used)]
    /\ UNCHANGED <<genVars, next_key_id, loop, kmVars, usageVars>>

\* The caller has the result (or the exception).
CallReturn(c) ==
    /\ calls[c].pc = "done"
    /\ calls' = [calls EXCEPT ![c] = IdleCall]
    /\ UNCHANGED <<genVars, keys, next_key_id, loop, va, usageVars>>

Secrets == {"sk-1"}

NextAI ==
    \/ \E u \in KeyUsers, p \in Providers, k \in Secrets, v \in ValidationOutcomes :
          AddKey(u, p, k, NoName, v) /\ UNCHANGED reply
    \/ \E k \in KeyIds, u \in KeyUsers : DeactivateKey(k, u) /\ UNCHANGED reply
    \/ \E c \in CallIds, u \in KeyUsers, t \in Tasks : CallBegin(c, u, t)
    \/ \E c \in CallIds, r \in AdapterReturns : CallAttempt(c, r)
    \/ \E c \in CallIds : CallReturn(c) /\ UNCHANGED reply

SpecAI == Init /\ [][NextAI]_vars

-----------------------------------------------------------------------------
(* The assist endpoint (api/assist.py).                                    *)
(*                                                                         *)
(* A request runs one task of the service (the explain and the analyze     *)
(* flows run a second one, generate_code_suggestion, which ends in the     *)
(* same ways) and answers with what the task returned or with what its     *)
(* except clauses make of the exception.                                   *)

\* The tasks ai_assist calls.
AssistTasks == {"suggest", "analyze", "complete", "refactor", "explain"}

\* raise HTTPException(status_code=404, detail="User not found")
user_not_found_error == "HTTPException"

\* The exceptions a clause "except cls" catches: cls and its subclasses
\* (HTTPException is an Exception and no ValueError).
Catches(cls, e) ==
    CASE cls = "ValueError" -> e = "ValueError"
      [] cls = "HTTPException" -> e = "HTTPException"
      [] OTHER -> e \in {"ValueError", "HTTPException", "Exception"}

\* The service's suggestions carry confidence 0.8; the placeholders 0.0
\* (in tenths).
ServiceConfidence == 8

\* A variant of handled_by: HTTPException is raised again before the
\* other clauses, as the key endpoints do.
handled_by_reraising(e) ==
    IF Catches("HTTPException", e) THEN "propagate"
    ELSE IF Catches("ValueError", e) THEN "except ValueError"
    ELSE "except Exception"

\* The except clause of ai_assist that handles e: the first that catches.
handled_by(e) ==
    IF Catches("ValueError", e) THEN "except ValueError"
    ELSE IF Catches("Exception", e) THEN "except Exception"
    ELSE "propagate"

\* What ai_assist answers when its try block ends with outcome: "ok"
\* for a suggestion returned, else the exception raised.
assist_response(outcome) ==
    IF outcome = "ok"
    THEN [http |-> 200, suggestion |-> "suggestion.code",
          confidence |-> ServiceConfidence]
    ELSE CASE handled_by(outcome) = "except ValueError" ->
                [http |-> 200, suggestion |-> "// No API keys configured.",
                 confidence |-> 0]
           [] handled_by(outcome) = "except Exception" ->
                [http |-> 200,
                 suggestion |-> "// AI assistance temporarily unavailable.",
                 confidence |-> 0]
           [] OTHER ->
                [http |-> 404, suggestion |-> "None", confidence |-> 0]

\* ai_assist when get_user_by_clerk_id finds no user.
AssistUserMissing ==
    /\ reply' = [op |-> "assist", outcome |-> user_not_found_error,
                 response |-> assist_response(user_not_found_error)]
    /\ UNCHANGED <<genVars, aiVars, loop, va, usageVars>>

\* ai_assist when the task has ended.
AssistReturn(c) ==
    /\ CallReturn(c)
    /\ reply' = [op |-> "assist", outcome |-> calls[c].result,
                 response |-> assist_response(calls[c].result)]

NextAssist ==
    \/ \E u \in KeyUsers, p \in Providers, k \in Secrets :
          AddKey(u, p, k, NoName, "200") /\ UNCHANGED reply
    \/ \E c \in CallIds, u \in KeyUsers, t \in AssistTasks : CallBegin(c, u, t)
    \/ \E c \in CallIds, r \in AdapterReturns : CallAttempt(c, r)
    \/ \E c \in CallIds : AssistReturn(c)
    \/ AssistUserMissing

SpecAssist == Init /\ [][NextAssist]_vars

\* The placeholder suggestions of ai_assist.
Placeholders == {"// No API keys configured.",
                 "// AI assistance temporarily unavailable."}

\* C20: whatever way a request to ai_assist ends (a suggestion, no
\* credentials, every provider failed, no user record), the answer is a
\* normal response, and when the request failed the response carries a
\* placeholder suggestion with confidence 0.
C20_AssistNeverPropagates ==
    reply.op = "assist" =>
        /\ reply.response.http = 200
        /\ reply.outcome # "ok"
              => /\ reply.response.suggestion \in Placeholders
                 /\ reply.response.confidence = 0

\* A request whose task failed with every provider has been answered.
C20_Witness ==
    /\ reply.op = "assist"
    /\ reply.outcome = all_failed_error
    /\ reply.response.confidence = 0

-----------------------------------------------------------------------------
(* Key selection (get_available_api_key) over stores with limits.          *)

Limits == {NoLimit} \cup (0..MaxLimit)

NextSelect ==
    \/ \E u \in KeyUsers, p \in Providers, k \in Secrets :
          AddKey(u, p, k, NoName, "200") /\ UNCHANGED reply
    \/ \E k \in KeyIds, u \in KeyUsers : DeactivateKey(k, u) /\ UNCHANGED reply
    \/ \E k \in KeyIds, n \in Limits : SetMonthlyLimit(k, n)
    \/ \E k \in KeyIdInputs : RecordUsageCall(k, 1)
    \/ ResetMonthlyUsage
    \/ \E u \in KeyUsers, p \in Providers : SelectKeyCall(u, p)

SpecSelect == Init /\ [][NextSelect]_vars

\* C11: a key handed out by get_available_api_key(user, provider) belongs
\* to that user and provider, is active and validated, and, when it has a
\* monthly limit N (N >= 0), has used less than N this month.
C11_SelectionSkipsExhausted ==
    reply.op = "select" =>
        \A r \in reply.result :
            /\ r.row.user_id = reply.user_id
            /\ r.row.provider = reply.provider
            /\ r.row.is_active
            /\ r.row.is_validated
            /\ r.row.monthly_limit # NoLimit
                  => r.row.current_month_usage < r.row.monthly_limit

\* Stores for the selection's first-row lookup: the keys of one user, added,
\* deactivated, given a limit and used.
NextFirst ==
    \/ \E u \in {1}, p \in Providers, k \in Secrets :
          AddKey(u, p, k, NoName, "200") /\ UNCHANGED reply
    \/ \E k \in KeyIds, u \in {1} : DeactivateKey(k, u) /\ UNCHANGED reply
    \/ \E k \in KeyIds, n \in Limits : SetMonthlyLimit(k, n)
    \/ \E k \in KeyIds : RecordUsageCall(k, 1)

SpecFirst == Init /\ [][NextFirst]_vars

\* The keys of a user for a provider that are active, validated and under
\* their monthly limit (or without one).
Qualifying(user_id, provider) ==
    {k \in KeyIds :
        /\ keys[k].user_id = user_id
        /\ keys[k].provider = provider
        /\ keys[k].is_active
        /\ keys[k].is_validated
        /\ keys[k].monthly_limit # NoLimit
              => keys[k].current_month_usage < keys[k].monthly_limit}

-----------------------------------------------------------------------------
(* The key-management requests and the validator (api_keys.py).            *)

\* Secrets a user submits: a first one and a replacement.
SubmittedSecrets == {"sk-1", "sk-2"}

\* display_name of a request: omitted, or given.
DisplayNames == {NoName, "work"}

NextKeys ==
    \/ \E provider \in ValidatorProviders, probe \in Probes :
          ValidateKey(provider, probe)
    \/ \E u \in KeyUsers, p \in Providers, k \in SubmittedSecrets,
          n \in DisplayNames, v \in ValidationOutcomes :
          AddKeyCall(u, p, k, n, v)

SpecKeys == Init /\ [][NextKeys]_vars

NextAdd ==
    \E u \in KeyUsers, p \in Providers, k \in SubmittedSecrets,
       n \in DisplayNames, v \in ValidationOutcomes :
       AddKeyCall(u, p, k, n, v)

SpecAdd == Init /\ [][NextAdd]_vars

NextOwner ==
    \/ \E u \in KeyUsers, p \in Providers, k \in Secrets :
          AddKey(u, p, k, NoName, "200") /\ UNCHANGED reply
    \/ \E k \in KeyIdInputs, u \in KeyUsers : DeactivateKeyCall(k, u)
    \/ \E k \in KeyIdInputs, u \in KeyUsers : DeleteKeyCall(k, u)

SpecOwner == Init /\ [][NextOwner]_vars

\* The rows stored for (user, provider, display name), the omitted name
\* being stored as the provider's default name.
RowsNamed(rows, user_id, provider, display_name) ==
    {k \in DOMAIN rows :
        /\ rows[k].user_id = user_id
        /\ rows[k].provider = provider
        /\ rows[k].display_name = default_display_name(provider, display_name)}

\* The validator accepted the key of an add_api_key call.
AcceptedAdd(r) ==
    /\ r.op = "add"
    /\ r.validation \in Probes
    /\ validate_key(r.provider, r.validation).is_valid

\* C12: an add_api_key call whose key the validator accepts, made right
\* after such a call for the same user, provider and display name with
\* another secret, leaves exactly one row for the triple, and the row
\* holds the secret of the second call.
C12_IdempotentUpsert ==
    [][(/\ AcceptedAdd(reply) /\ AcceptedAdd(reply')
        /\ reply'.user_id = reply.user_id
        /\ reply'.provider = reply.provider
        /\ reply'.display_name = reply.display_name
        /\ reply'.api_key # reply.api_key)
       => LET rows == RowsNamed(keys', reply'.user_id, reply'.provider,
                                reply'.display_name)
          IN  /\ Cardinality(rows) = 1
              /\ \A k \in rows : keys'[k].api_key = reply'.api_key]_vars

\* The validator rejected the key of an add_api_key call.
RejectedAdd(r) ==
    /\ r.op = "add"
    /\ r.validation \in Probes
    /\ ~ validate_key(r.provider, r.validation).is_valid

\* C13: an add_api_key call whose key the validator reports invalid
\* returns success=False with the validator's message as it is, and
\* leaves every stored row as it was.
C13_InvalidKeyChangesNothing ==
    [][(reply' # reply /\ RejectedAdd(reply'))
       => /\ reply'.result.success = FALSE
          /\ reply'.result.error =
                validate_key(reply'.provider, reply'.validation).error_message
          /\ keys' = keys]_vars

\* A rejected add for a user and provider that have a stored row.
C13_Witness ==
    /\ RejectedAdd(reply)
    /\ uq_user_provider(reply.user_id, reply.provider) # {}

\* C14: deactivate_key and delete_key called by a user who does not own
\* the key, or with an id no row has, return False and leave every stored
\* row as it was.
C14_OwnershipIsolation ==
    [][(/\ reply' # reply
        /\ reply'.op \in {"deactivate", "delete"}
        /\ \A k \in KeyIds : k = reply'.key_id
                               => keys[k].user_id # reply'.user_id)
       => /\ reply'.result = FALSE
          /\ keys' = keys]_vars

\* A request on an active key of another user was refused, and the key is
\* stored as it was.
C14_Witness ==
    /\ reply.op \in {"deactivate", "delete"}
    /\ reply.result = FALSE
    /\ reply.before # {}
    /\ \A row \in reply.before : row.user_id # reply.user_id /\ row.is_active
    /\ \E k \in KeyIds : keys[k] \in reply.before

\* C17: for every provider of the validator, a probe answered with HTTP
\* 401 gives is_valid = False with the message "Invalid API key", and a
\* probe that fails on the network gives is_valid = False with another
\* message.
C17_ValidatorClassification ==
    reply.op = "validate" =>
        /\ (reply.probe # "network" /\ http_status(reply.probe) = 401)
              => /\ ~ reply.result.is_valid
                 /\ reply.result.error_message = "Invalid API key"
        /\ reply.probe = "network"
              => /\ ~ reply.result.is_valid
                 /\ reply.result.error_message # "Invalid API key"

-----------------------------------------------------------------------------
(* validate_all_keys among the other requests on the key store.            *)

\* Answers the vendors give to the probes of validate_all_keys.
VaProbes == {"200", "401", "network"}

NextValidateAll ==
    \/ \E u \in KeyUsers, p \in Providers, k \in Secrets :
          AddKey(u, p, k, "work", "200") /\ UNCHANGED reply
    \/ \E k \in KeyIds, u \in KeyUsers : DeactivateKey(k, u) /\ UNCHANGED reply
    \/ \E k \in KeyIds, u \in KeyUsers : DeleteKey(k, u) /\ UNCHANGED reply
    \/ \E v \in VaIds, u \in KeyUsers : VaBegin(v, u)
    \/ \E v \in VaIds, probe \in VaProbes : VaProbe(v, probe)
    \/ \E v \in VaIds : VaCommit(v)

SpecValidateAll == Init /\ [][NextValidateAll]_vars

\* Keys added, deactivated, added again and revalidated.
NextReadd ==
    \/ \E u \in KeyUsers, p \in Providers, k \in Secrets, n \in DisplayNames,
          v \in {"200", "401"} : AddKeyCall(u, p, k, n, v)
    \/ \E k \in KeyIds, u \in KeyUsers : DeactivateKeyCall(k, u)
    \/ \E v \in VaIds, u \in KeyUsers : VaBegin(v, u)
    \/ \E v \in VaIds, probe \in VaProbes : VaProbe(v, probe)
    \/ \E v \in VaIds : VaCommit(v)

SpecReadd == Init /\ [][NextReadd]_vars

\* C30: a key added with success is usable: right after add_api_key
\* returned success, get_available_api_key(user, provider) returns a key,
\* whatever adds, deactivations and validate_all calls came before (no key
\* has a monthly limit here).
C30_AddedKeyIsUsable ==
    [][\A u \in KeyUsers, p \in Providers, k \in Secrets, n \in DisplayNames,
          v \in {"200", "401"} :
          (AddKeyCall(u, p, k, n, v) /\ reply'.result.success)
              => (get_available_api_key(u, p) # {})']_vars

\* C15: when validate_all_keys ends, it returns one entry for every
\* active key of the user it loaded, the stored is_validated of each of
\* these keys is the is_valid reported for it, and no other row is changed.
C15_ValidateAllReportsWhatItStores ==
    [][\A v \in VaIds :
          (va[v].pc = "probing" /\ va'[v].pc = "idle") =>
              /\ ~ reply'.raised
              /\ DOMAIN reply'.results = reply'.loaded
              /\ \A k \in reply'.loaded :
                    /\ k \in DOMAIN keys'
                    /\ keys'[k].is_validated = reply'.results[k].is_valid
              /\ \A k \in DOMAIN keys \ reply'.loaded :
                    k \in DOMAIN keys' /\ keys'[k] = keys[k]]_vars

-----------------------------------------------------------------------------
(* Usage recording by concurrent assist requests (assist.py).              *)
(*                                                                         *)
(* Every request has a database session of its own (get_db) and builds a   *)
(* manager over it; the AI service is one object for the process, and      *)
(* set_api_key_manager replaces its manager.  A session keeps the rows it  *)
(* has loaded until it commits or is closed: a query that finds a row the  *)
(* session already holds hands back the held row as it was loaded.         *)
(* handlers[h].session is that set of rows, as key id -> counters.         *)

\* Most update_key_usage calls followed.
MaxRecords == 3

\* A variant of manager_in_use: every request records through the manager
\* it built itself.
manager_in_use_own(h) == h

\* self.api_key_manager at the time the task calls update_key_usage: the
\* manager of the request that called set_api_key_manager last.
manager_in_use(h) == api_key_manager

\* The counters of a row as a session holds them.
Counters(row) == [usage_count |-> row.usage_count,
                  current_month_usage |-> row.current_month_usage]

\* ai_assist up to the adapter call that will succeed, at any place of the
\* fallback order: the manager of the request is set on the service, and
\* the enumeration loads, for every provider, the user's active and
\* validated row into the session of the request.  The request of a user
\* without an available key ends here.
AssistBegin(h, user_id) ==
    /\ handlers[h].pc = "idle"
    /\ api_key_manager' = h
    /\ LET available_providers == _get_available_providers(user_id)
           rows == {k \in KeyIds : /\ keys[k].user_id = user_id
                                   /\ keys[k].provider \in {ProviderEnum[i] :
                                          i \in 1..Len(ProviderEnum)}
                                   /\ keys[k].is_active
                                   /\ keys[k].is_validated}
       IN  \/ /\ available_providers = <<>>
              /\ handlers' = [handlers EXCEPT ![h] = IdleHandler]
           \/ \E i \in 1..Len(available_providers) :
                 handlers' = [handlers EXCEPT ![h] =
                    [pc |-> "calling", user |-> user_id,
                     key |-> available_providers[i][2],
                     session |-> [k \in rows |-> Counters(keys[k])]]]
    /\ UNCHANGED <<genVars, aiVars, loop, kmVars, usage_log>>

\* usage_log with one more call for key_id.
LogAdd(log, key_id) ==
    [k \in DOMAIN log \cup {key_id} |->
        IF k = key_id
        THEN (IF k \in DOMAIN log THEN log[k] + 1 ELSE 1)
        ELSE log[k]]

\* The number of calls usage_log counts.
RECURSIVE Recorded(_)
Recorded(log) ==
    IF DOMAIN log = {} THEN 0
    ELSE LET k == CHOOSE j \in DOMAIN log : TRUE
         IN  log[k] + Recorded([j \in DOMAIN log \ {k} |-> log[j]])

\* The adapter call returned: update_key_usage(str(api_key.id), 1) through
\* the manager the service holds.  The row is the one the manager's
\* session holds, else the stored one; the counters computed from it are
\* written, and the commit empties the session.  A row that is gone is
\* not found, or its UPDATE matches nothing and is rolled back.
AssistRecord(h) ==
    /\ handlers[h].pc = "calling"
    /\ LET key_id == handlers[h].key
           m == manager_in_use(h)
           held == handlers[m].session
           row == IF key_id \in DOMAIN held THEN held[key_id]
                  ELSE Counters(keys[key_id])
       IN  /\ Recorded(usage_log) < MaxRecords
           /\ keys' = IF key_id \in KeyIds
                      THEN [keys EXCEPT
                              ![key_id].usage_count = row.usage_count + 1,
                              ![key_id].current_month_usage =
                                  row.current_month_usage + 1]
                      ELSE keys
           /\ usage_log' = IF key_id \in KeyIds THEN LogAdd(usage_log, key_id)
                           ELSE usage_log
           /\ handlers' = [x \in Handlers |->
                             IF x = h /\ x = m
                             THEN [handlers[x] EXCEPT !.pc = "recorded",
                                                      !.session = <<>>]
                             ELSE IF x = h
                             THEN [handlers[x] EXCEPT !.pc = "recorded"]
                             ELSE IF x = m
                             THEN [handlers[x] EXCEPT !.session = <<>>]
                             ELSE handlers[x]]
    /\ UNCHANGED <<genVars, calls, next_key_id, loop, kmVars, api_key_manager>>

\* The response is returned and get_db closes the session of the request.
AssistEnd(h) ==
    /\ handlers[h].pc = "recorded"
    /\ handlers' = [handlers EXCEPT ![h] = IdleHandler]
    /\ UNCHANGED <<genVars, aiVars, loop, kmVars, api_key_manager, usage_log>>

NextUsage ==
    \/ \E u \in KeyUsers, p \in Providers, k \in Secrets :
          AddKey(u, p, k, NoName, "200") /\ UNCHANGED reply
    \/ \E h \in Handlers, u \in KeyUsers : AssistBegin(h, u)
    \/ \E h \in Handlers : AssistRecord(h)
    \/ \E h \in Handlers : AssistEnd(h)

SpecUsage == Init /\ [][NextUsage]_vars

\* The requests that record usage, on keys that were given a monthly limit
\* before their first use and while no request was under way.
NextQuota ==
    \/ NextUsage
    \/ \E k \in KeyIds, n \in 1..MaxLimit :
          /\ keys[k].usage_count = 0
          /\ \A h \in Handlers : handlers[h].pc = "idle"
          /\ SetMonthlyLimit(k, n)

SpecQuota == Init /\ [][NextQuota]_vars

\* C29: the monthly quota is never overshot: a key with monthly limit N,
\* charged one unit per call, never has a current_month_usage above N, also
\* when several calls select and use it concurrently.
C29_QuotaNeverOvershot ==
    \A k \in KeyIds :
        keys[k].monthly_limit >= 1
            => keys[k].current_month_usage <= keys[k].monthly_limit

\* C16: whatever the interleaving of the requests that record usage on a
\* key, the key's usage_count and its current_month_usage are higher than
\* at creation by the number of update_key_usage calls made for it (every
\* call site passes tokens_used = 1).
C16_NoLostIncrement ==
    \A k \in KeyIds :
        LET n == IF k \in DOMAIN usage_log THEN usage_log[k] ELSE 0
        IN  /\ keys[k].usage_count = n
            /\ keys[k].current_month_usage = n

\* Both requests were in flight together on the same key, and both have
\* recorded.
C16_Witness ==
    \E k \in KeyIds :
        /\ k \in DOMAIN usage_log
        /\ usage_log[k] >= 2
        /\ \A h \in Handlers : /\ handlers[h].pc = "recorded"
                                /\ handlers[h].key = k

-----------------------------------------------------------------------------
(* Claims about the AI service, checked under SpecAI.                      *)

\* The call has returned a result / has ended, either way.
Succeeded(c) == calls[c].pc = "done" /\ calls[c].result = "ok"
Ended(c) == calls[c].pc = "done"

\* The adapter calls of c that returned (did not raise), by position.
AdapterSucceededAt(c) ==
    {i \in 1..Len(calls[c].attempts) : calls[c].attempts[i][2]}

\* The key the call enumerated for provider p.
KeyOf(c, p) ==
    LET ps == calls[c].providers
    IN  ps[CHOOSE i \in 1..Len(ps) : ps[i][1] = p][2]

\* The user has no key that is both active and validated.
NoUsableKey(user_id) ==
    ~ \E k \in KeyIds : /\ keys[k].user_id = user_id
                        /\ keys[k].is_active
                        /\ keys[k].is_validated

\* C7: a call that returns a result returns the result of the first
\* provider, in enumeration order, whose adapter call succeeded: that
\* adapter call is the last one made, usage is recorded against no key but
\* that provider's, and no provider after it is called.
C7_FallbackOrder ==
    \A c \in CallIds :
        Succeeded(c) =>
            LET first == CHOOSE i \in AdapterSucceededAt(c) :
                            \A j \in AdapterSucceededAt(c) : i <= j
            IN  /\ calls[c].served_by = calls[c].attempts[first][1]
                /\ first = Len(calls[c].attempts)
                /\ \A i \in 1..Len(calls[c].recorded) :
                      calls[c].recorded[i] = KeyOf(c, calls[c].served_by)

\* C8: when a task starts for a user with no key that is both active and
\* validated, it ends at once with the no-credentials error; a call that
\* ended with that error made no adapter call and recorded no usage, and
\* the step changes no row of the key store.
C8_NoCredentialFastPath ==
    [][\A c \in CallIds :
          /\ (calls[c].pc = "idle" /\ calls'[c].pc # "idle"
                /\ NoUsableKey(calls'[c].user))
             => /\ calls'[c].pc = "done"
                /\ calls'[c].result = no_providers_error
                /\ keys' = keys
          /\ calls'[c].result = no_providers_error
             => /\ calls'[c].attempts = <<>>
                /\ calls'[c].recorded = <<>>]_vars

\* A task ended with the no-credentials error for a user who has a key,
\* deactivated.
C8_Witness ==
    \E c \in CallIds :
        /\ Ended(c)
        /\ calls[c].result = no_providers_error
        /\ calls[c].attempts = <<>>
        /\ \E k \in KeyIds : /\ keys[k].user_id = calls[c].user
                             /\ ~ keys[k].is_active

\* C9: a call that enumerated at least one provider and whose adapter call
\* failed for every one of them has ended with the all-providers-failed
\* error, which is not the no-credentials error; that call, and a call
\* that ended with the no-credentials error, recorded no usage.
C9_AllProvidersFailed ==
    \A c \in CallIds :
        /\ (Ended(c) /\ calls[c].providers # <<>> /\ AdapterSucceededAt(c) = {})
           => /\ calls[c].result = all_failed_error
              /\ calls[c].result # no_providers_error
              /\ calls[c].recorded = <<>>
        /\ (Ended(c) /\ calls[c].providers = <<>>)
           => /\ calls[c].result = no_providers_error
              /\ calls[c].result # all_failed_error
              /\ calls[c].recorded = <<>>

\* Two providers were enumerated, the adapter was called for both and
\* failed for both, and the call ended with the aggregate error.
C9_Witness ==
    \E c \in CallIds :
        /\ Ended(c)
        /\ Len(calls[c].providers) >= 2
        /\ Len(calls[c].attempts) >= 2
        /\ AdapterSucceededAt(c) = {}
        /\ calls[c].result = all_failed_error

\* C10: a call of any of the six tasks that returns a result has recorded
\* usage exactly once, against the key of the provider that produced the
\* result.
C10_UsageRecordedOnce ==
    \A c \in CallIds :
        Succeeded(c) =>
            calls[c].recorded = <<KeyOf(c, calls[c].served_by)>>

====
